---- MODULE Spec2Model ----
(***************************************************************************)
(* Model of the fractal gallery's two generators and of the React          *)
(* components that drive them:                                             *)
(*   - Rule30Visualization (src/src/components/WolframGameOfLife.tsx):     *)
(*     the generation list, the frame counter and the instanced mesh;      *)
(*   - createRule30Texture (src/unnamed/part_000): the packed RGBA buffer; *)
(*   - Cube (src/unnamed/part_000), Tetrahedron (src/unnamed/part_001)     *)
(*     and Torus (src/unnamed/part_002): the recursively revealed trees.   *)
(* Arrays keep the source's 0-based indices: an array of length n is a     *)
(* function with domain 0..n-1.                                            *)
(* Specifications: SpecCA, LiveCA and LiveFrames (the two Rule 30          *)
(* generators, with fairness of the loops and of the animation), SpecTree  *)
(* (the reveal by timers), SpecWalk (one path of the default trees),       *)
(* SpecGrow and LiveGrow (timers and frames), SpecAnyCall (parameters of   *)
(* any sign), SpecTwice (a second call, a second mount), SpecGallery (the  *)
(* buttons of FractalGallery) and SpecActual (the 240 x 120 grid).         *)
(***************************************************************************)
EXTENDS Integers, Sequences, FiniteSets, TLC

VARIABLES
    width,           \* row length handed to both Rule 30 implementations
    maxGenerations,  \* row count (the texture's height)
    pc,              \* Rule30Visualization: "off", "mount" (effect running), "mounted"
    allGenerations,  \* local of the mount effect: rows pushed so far
    i,               \* outer loop counter of the mount effect
    generations,     \* React state
    cells,           \* React state: "null" or "mesh"
    frame,           \* React state
    view,            \* the values the last committed render closed over
    ticks,           \* useFrame callbacks run since the last commit
    mesh,            \* the THREE.InstancedMesh: [count, matrix]
    tpc,             \* createRule30Texture: "off", "clear", "seed", "loop", "done"
    data,            \* the Uint8Array
    ty,              \* loop counter y
    tx,              \* loop counter x
    kind,            \* the mounted tree: "none", "Cube", "Tetrahedron" or "Torus"
    rootDepth,       \* the depth prop of the root
    nodes,           \* component instances by path: props, show, showChildren
    timers,          \* pending setTimeout calls, in firing order
    now,             \* the clock of the timer queue, in ms
    frameMs,         \* the interval between two useFrame rounds, in ms; 0: no frames
    nextFrame,       \* the time of the next useFrame round, in ms
    dataId,          \* the identity of the Uint8Array the current call allocated
    prior,           \* what the earlier call or mount returned, as its holder has it
    activeFractal,   \* FractalGallery's state: the visualization on display
    mounts,          \* how often the gallery has replaced the visualization
    late             \* timer callbacks that ran for a component already unmounted

caVars == <<width, maxGenerations, pc, allGenerations, i, generations, cells,
            frame, view, ticks, mesh, tpc, data, ty, tx>>

treeVars == <<kind, rootDepth, nodes, timers, now>>

frameVars == <<frameMs, nextFrame>>

callVars == <<dataId, prior>>

galleryVars == <<activeFractal, mounts, late>>

vars == <<caVars, treeVars, frameVars, callVars, galleryVars>>

\* ---------------------------------------------------------------- bounds

MaxWidth == 7
MaxGens == 4
MaxStaleTicks == 2
MaxCubeDepth == 2
MaxTetrahedronDepth == 3
MaxTorusDepth == 3

\* ------------------------------------------------------- array helpers

Size(a) == Cardinality(DOMAIN a)

Fill(n, v) == [k \in 0..(n - 1) |-> v]

\* the element pushed twice
PushTwice(a, v) == [k \in 0..(Size(a) + 1) |-> IF k < Size(a) THEN a[k] ELSE v]

Push(a, v) == [k \in 0..Size(a) |-> IF k < Size(a) THEN a[k] ELSE v]

Min(a, b) == IF a < b THEN a ELSE b

\* ------------------------------------------- Rule30Visualization: evolution

\* the seed in the first column
InitialStateAtEdge(w) == [Fill(w, 0) EXCEPT ![0] = 1]

InitialState(w) == [Fill(w, 0) EXCEPT ![w \div 2] = 1]

\* a periodic boundary instead of a dead one
WrapListLeft(prevGen, j) == prevGen[(j - 1) % Size(prevGen)]

ListLeft(prevGen, j) == IF j = 0 THEN 0 ELSE prevGen[j - 1]

ListCenter(prevGen, j) == prevGen[j]

ListRight(prevGen, j, w) == IF j = w - 1 THEN 0 ELSE prevGen[j + 1]

\* (left << 2) | (center << 1) | right on single bits
ListPattern(left, center, right) == left * 4 + center * 2 + right

ListNextState(pattern) == IF pattern = 1 \/ pattern = 2 \/ pattern = 3 \/ pattern = 4 THEN 1 ELSE 0

NextGen(prevGen, w) ==
    [j \in 0..(w - 1) |->
        ListNextState(ListPattern(ListLeft(prevGen, j), ListCenter(prevGen, j),
                                  ListRight(prevGen, j, w)))]

\* ------------------------------------------- Rule30Visualization: instances

\* matrix.setPosition(posX * 0.15, posY * 0.15, 0) with posX = x - width / 2 and
\* posY = -y + 30, kept exactly in units of 0.075: <<2x - width, 2(30 - y)>>.
InstancePosition(x, y, w) == <<2 * x - w, 2 * ((0 - y) + 30)>>

IdentityPosition == <<0, 0>>

\* The two nested for-loops of the update effect, walked as one index p = y * w + x.
\* st = [count, matrix]; a live cell writes slot count and increments it.
RECURSIVE UpdateLoop(_, _, _, _, _)
UpdateLoop(gens, w, maxGens, p, st) ==
    IF p >= maxGens * w THEN st
    ELSE LET y == p \div w
             x == p % w
         IN  IF gens[y][x] = 1
             THEN \* s is st, bound so that it is evaluated once per cell
                  CHOOSE r \in {UpdateLoop(gens, w, maxGens, p + 1,
                                   [count |-> s.count + 1,
                                    matrix |-> [s.matrix EXCEPT ![s.count] = InstancePosition(x, y, w)]])
                                : s \in {st}} : TRUE
             ELSE UpdateLoop(gens, w, maxGens, p + 1, st)

\* one generation short
DisplayedGensShort(f, gens) == Min(f, Size(gens))

DisplayedGens(f, gens) == Min(f + 1, Size(gens))

UpdateEffect(f, gens, m) ==
    LET st == UpdateLoop(gens, Size(gens[0]), DisplayedGens(f, gens), 0,
                         [count |-> 0, matrix |-> m.matrix])
    IN  [count |-> st.count, matrix |-> st.matrix]

\* --------------------------------------------------- createRule30Texture

\* the x === 0 test dropped: the read runs into the end of the row before
UnguardedTexLeft(d, y, x, w) ==
    LET k == ((y * w) + (x - 1)) * 4
    IN  IF k \in DOMAIN d /\ d[k] > 0 THEN 1 ELSE 0

TexLeft(d, y, x, w) == IF x = 0 THEN 0 ELSE IF d[((y * w) + (x - 1)) * 4] > 0 THEN 1 ELSE 0

TexCenter(d, y, x, w) == IF d[((y * w) + x) * 4] > 0 THEN 1 ELSE 0

TexRight(d, y, x, w) == IF x = w - 1 THEN 0 ELSE IF d[((y * w) + (x + 1)) * 4] > 0 THEN 1 ELSE 0

\* left and right shifted the wrong way round
MirroredTexPattern(left, center, right) == right * 4 + center * 2 + left

TexPattern(left, center, right) == left * 4 + center * 2 + right

\* pattern 3 forgotten
TexNextStateNo3(pattern) == IF pattern = 1 \/ pattern = 2 \/ pattern = 4 THEN 1 ELSE 0

TexNextState(pattern) == IF pattern = 1 \/ pattern = 2 \/ pattern = 3 \/ pattern = 4 THEN 1 ELSE 0

\* a store into a Uint8Array keeps the low 8 bits
Uint8(v) == v % 256

\* d[k] = v on a Uint8Array: a store outside the buffer is ignored
Store(d, k, v) == IF k \in DOMAIN d THEN [d EXCEPT ![k] = Uint8(v)] ELSE d

\* the clearing loop: R, G, B = 0 and A = 255 for every pixel
ClearedData(w, h) == [k \in 0..(w * h * 4 - 1) |-> IF k % 4 = 3 THEN 255 ELSE 0]

\* the row written is the row read
SameRowIndex(y, x, w) == (y * w + x) * 4

TexNextIndex(y, x, w) == ((y + 1) * w + x) * 4

SeedIndex(w) == (0 * w + (w \div 2)) * 4

\* ------------------------------------------------------------ Rule 30: Init

NoMesh == [count |-> 0, matrix |-> <<>>]

\* the button that puts the tree of kind k (or, for "none", the Rule 30
\* visualization) on display
FractalOf(k) ==
    CASE k = "Cube" -> "menger"
      [] k = "Tetrahedron" -> "tetrahedron"
      [] k = "Torus" -> "torus"
      [] k = "none" -> "wolfram"

\* the visualization on display is the first one mounted
NoClicks ==
    /\ activeFractal = FractalOf(kind)
    /\ mounts = 0
    /\ late = 0

\* no earlier call has returned yet. id and bytes are the returned Uint8Array
\* as its holder has it now, returned its content when the call returned, and
\* generations the rows an earlier mount of Rule30Visualization put in its state.
NoBuffer == [id |-> 0, bytes |-> <<>>, returned |-> <<>>, generations |-> <<>>]

InitCA ==
    /\ width \in 1..MaxWidth
    /\ maxGenerations \in 1..MaxGens
    /\ pc = "mount"
    /\ allGenerations = Fill(1, InitialState(width))
    /\ i = 0
    /\ generations = <<>>
    /\ cells = "null"
    /\ frame = 0
    /\ view = [frame |-> 0, generations |-> <<>>, cells |-> "null"]
    /\ ticks = 0
    /\ mesh = NoMesh
    /\ tpc = "clear"
    /\ data = Fill(width * maxGenerations * 4, 0)
    /\ ty = 0
    /\ tx = 0
    /\ kind = "none"
    /\ rootDepth = 0
    /\ nodes = <<>>
    /\ timers = <<>>
    /\ now = 0
    /\ frameMs = 0
    /\ nextFrame = 0
    /\ dataId = 1
    /\ prior = NoBuffer
    /\ NoClicks

\* --------------------------------------------- Rule30Visualization: actions

listVars == <<pc, allGenerations, i, generations, cells, frame, view, ticks, mesh>>

texVars == <<tpc, data, ty, tx>>

\* one iteration of the outer for-loop of the mount effect
EvolveRow ==
    /\ pc = "mount"
    /\ i < maxGenerations - 1
    /\ allGenerations' = Push(allGenerations, NextGen(allGenerations[i], width))
    /\ i' = i + 1
    /\ UNCHANGED <<width, maxGenerations, pc, generations, cells, frame, view, ticks, mesh>>
    /\ UNCHANGED texVars
    /\ UNCHANGED <<treeVars, frameVars, callVars, galleryVars>>

\* the rest of the mount effect: setGenerations, the new mesh with count 0, setCells.
\* The update effect of the same commit still sees cells = null and returns.
\* (currentGen is set here and read nowhere; it is not kept.)
FinishMount ==
    /\ pc = "mount"
    /\ ~(i < maxGenerations - 1)
    /\ generations' = allGenerations
    /\ mesh' = [count |-> 0, matrix |-> Fill(width * maxGenerations, IdentityPosition)]
    /\ cells' = "mesh"
    /\ pc' = "mounted"
    /\ UNCHANGED <<width, maxGenerations, allGenerations, i, frame, view, ticks>>
    /\ UNCHANGED texVars
    /\ UNCHANGED <<treeVars, frameVars, callVars, galleryVars>>

\* a re-render after a state change, and the update effect its commit runs
Render ==
    /\ pc = "mounted"
    /\ view # [frame |-> frame, generations |-> generations, cells |-> cells]
    /\ view' = [frame |-> frame, generations |-> generations, cells |-> cells]
    /\ ticks' = 0
    /\ mesh' = IF cells = "null" \/ Size(generations) = 0
               THEN mesh
               ELSE UpdateEffect(frame, generations, mesh)
    /\ UNCHANGED <<width, maxGenerations, pc, allGenerations, i, generations, cells, frame>>
    /\ UNCHANGED texVars
    /\ UNCHANGED <<treeVars, frameVars, callVars, galleryVars>>

\* the animation starts over after the last generation
FrameTickRestart ==
    /\ pc = "mounted"
    /\ ticks < MaxStaleTicks
    /\ ticks' = ticks + 1
    /\ frame' = IF view.frame < Size(view.generations) - 1 THEN frame + 1 ELSE 0
    /\ UNCHANGED <<width, maxGenerations, pc, allGenerations, i, generations, cells, view, mesh>>
    /\ UNCHANGED <<tpc, data, ty, tx>>
    /\ UNCHANGED <<treeVars, frameVars, callVars, galleryVars>>

\* the useFrame callback of the last committed render: it tests the frame that
\* render saw and queues a functional update of the state. (The group's rotation,
\* a function of the wall clock, is not kept.)
FrameTick ==
    /\ pc = "mounted"
    /\ ticks < MaxStaleTicks
    /\ ticks' = ticks + 1
    /\ frame' = IF view.frame < Size(view.generations) - 1 THEN frame + 1 ELSE frame
    /\ UNCHANGED <<width, maxGenerations, pc, allGenerations, i, generations, cells, view, mesh>>
    /\ UNCHANGED texVars
    /\ UNCHANGED <<treeVars, frameVars, callVars, galleryVars>>

\* --------------------------------------------- createRule30Texture: actions

TexClear ==
    /\ tpc = "clear"
    /\ data' = ClearedData(width, maxGenerations)
    /\ tpc' = "seed"
    /\ UNCHANGED <<width, maxGenerations, ty, tx>>
    /\ UNCHANGED listVars
    /\ UNCHANGED <<treeVars, frameVars, callVars, galleryVars>>

TexSeed ==
    /\ tpc = "seed"
    /\ data' = Store(data, SeedIndex(width), 255)
    /\ tpc' = "loop"
    /\ UNCHANGED <<width, maxGenerations, ty, tx>>
    /\ UNCHANGED listVars
    /\ UNCHANGED <<treeVars, frameVars, callVars, galleryVars>>

\* one iteration of the inner for-loop
TexCell ==
    /\ tpc = "loop"
    /\ ty < maxGenerations - 1
    /\ tx < width
    /\ LET left == TexLeft(data, ty, tx, width)
           center == TexCenter(data, ty, tx, width)
           right == TexRight(data, ty, tx, width)
           nextState == TexNextState(TexPattern(left, center, right))
           nextIndex == TexNextIndex(ty, tx, width)
       IN  data' = Store(Store(data, nextIndex, nextState * 255), nextIndex + 3, 255)
    /\ IF tx + 1 < width
       THEN tx' = tx + 1 /\ ty' = ty
       ELSE tx' = 0 /\ ty' = ty + 1
    /\ UNCHANGED <<width, maxGenerations, tpc>>
    /\ UNCHANGED listVars
    /\ UNCHANGED <<treeVars, frameVars, callVars, galleryVars>>

\* the loop is over: the buffer is wrapped in the DataTexture and returned
TexReturn ==
    /\ tpc = "loop"
    /\ ~(ty < maxGenerations - 1)
    /\ tpc' = "done"
    /\ UNCHANGED <<width, maxGenerations, data, ty, tx>>
    /\ UNCHANGED listVars
    /\ UNCHANGED <<treeVars, frameVars, callVars, galleryVars>>

NextCA ==
    \/ EvolveRow
    \/ FinishMount
    \/ Render
    \/ FrameTick
    \/ TexClear
    \/ TexSeed
    \/ TexCell
    \/ TexReturn

SpecCA == InitCA /\ [][NextCA]_vars

\* ------------------------------------------------- Rule 30: properties

Bits == {0, 1}

\* Wolfram's numbering: the next state for neighbourhood (l, c, r) is bit 4l + 2c + r of 30
Rule30(l, c, r) == (30 \div (2 ^ (4 * l + 2 * c + r))) % 2

Xor(a, b) == IF a = b THEN 0 ELSE 1

Or(a, b) == IF a = 1 \/ b = 1 THEN 1 ELSE 0

Cols == 0..(width - 1)

\* cell (r, c) of a list of rows, dead outside [0, width)
GridCell(g, r, c) == IF c \in Cols THEN g[r][c] ELSE 0

\* cell (r, c) of the texture: its red byte is non-zero; dead outside [0, width)
TexCellAt(r, c) == IF c \in Cols THEN (IF data[(r * width + c) * 4] > 0 THEN 1 ELSE 0) ELSE 0

\* the rows and cells the texture loop has written so far
TexWritten(r, c) ==
    /\ tpc \in {"loop", "done"}
    /\ r \in 1..(maxGenerations - 1)
    /\ c \in Cols
    /\ (r <= ty \/ (r = ty + 1 /\ c < tx))

TexRowWritten(r) == \A c \in Cols : TexWritten(r, c)

SeedRow == [c \in Cols |-> IF c = width \div 2 THEN 1 ELSE 0]

\* C1: in the generation list and in the texture, every generated cell (r, c) with
\* r > 0 is Rule 30 of cells (r-1, c-1), (r-1, c), (r-1, c+1), a neighbour outside
\* [0, width) counting as dead.
C1_EveryCellFollowsRule ==
    /\ \A r \in 1..(Size(allGenerations) - 1) : \A c \in Cols :
          allGenerations[r][c] = Rule30(GridCell(allGenerations, r - 1, c - 1),
                                        GridCell(allGenerations, r - 1, c),
                                        GridCell(allGenerations, r - 1, c + 1))
    /\ \A r \in 1..(Size(generations) - 1) : \A c \in Cols :
          generations[r][c] = Rule30(GridCell(generations, r - 1, c - 1),
                                     GridCell(generations, r - 1, c),
                                     GridCell(generations, r - 1, c + 1))
    /\ \A r \in 1..(maxGenerations - 1) : \A c \in Cols :
          TexWritten(r, c) =>
              /\ data[(r * width + c) * 4] \in {0, 255}
              /\ TexCellAt(r, c) = Rule30(TexCellAt(r - 1, c - 1), TexCellAt(r - 1, c),
                                          TexCellAt(r - 1, c + 1))

\* both grids are complete, and a live cell sits on the left edge of a row that has
\* a successor, so the dead neighbour decides a cell
C1_Witness ==
    /\ pc = "mounted"
    /\ tpc = "done"
    /\ \E r \in 1..(maxGenerations - 1) :
          generations[r - 1][0] = 1 /\ TexCellAt(r - 1, 0) = 1

\* C2: the next-state function of both implementations is live exactly for the
\* patterns 1, 2, 3, 4 of 4*left + 2*centre + right, which is left XOR (centre OR
\* right); one step from the width-7 seed 0001000 gives 0011100.
C2_TruthTable ==
    /\ \A l \in Bits : \A c \in Bits : \A r \in Bits :
          LET live == IF (4 * l + 2 * c + r) \in {1, 2, 3, 4} THEN 1 ELSE 0
          IN  /\ ListNextState(ListPattern(l, c, r)) = live
              /\ TexNextState(TexPattern(l, c, r)) = live
              /\ live = Xor(l, Or(c, r))
    /\ (width = 7 /\ Size(allGenerations) > 1) =>
          /\ allGenerations[0] = [c \in 0..6 |-> IF c = 3 THEN 1 ELSE 0]
          /\ allGenerations[1] = [c \in 0..6 |-> IF c \in {2, 3, 4} THEN 1 ELSE 0]
    /\ (width = 7 /\ maxGenerations > 1 /\ TexRowWritten(1)) =>
          /\ [c \in 0..6 |-> TexCellAt(0, c)] = [c \in 0..6 |-> IF c = 3 THEN 1 ELSE 0]
          /\ [c \in 0..6 |-> TexCellAt(1, c)] = [c \in 0..6 |-> IF c \in {2, 3, 4} THEN 1 ELSE 0]

C2_Witness ==
    /\ width = 7
    /\ Size(allGenerations) > 1
    /\ TexRowWritten(1)

\* C3: row 0 holds exactly one live cell, at column floor(width / 2), in the list
\* from its first row on and in the texture from the seeding on: in the finished
\* grid, and in every state while later rows are generated.
C3_RowZeroIsSeed ==
    /\ allGenerations[0] = SeedRow
    /\ pc = "mounted" => generations[0] = SeedRow
    /\ tpc \in {"loop", "done"} =>
          \A c \in Cols : data[(0 * width + c) * 4] = (IF c = width \div 2 THEN 255 ELSE 0)

\* the finished grids, with rows generated after row 0
C3_Witness ==
    /\ pc = "mounted"
    /\ tpc = "done"
    /\ maxGenerations >= 3
    /\ width >= 4

\* C4: with width 1 the cell of row r + 1 is the rule's output for (0, cell of row
\* r, 0), in the list and in the texture.
C4_WidthOne ==
    width = 1 =>
        /\ \A r \in 0..(Size(allGenerations) - 2) :
              allGenerations[r + 1][0] = Rule30(0, allGenerations[r][0], 0)
        /\ \A r \in 0..(maxGenerations - 2) :
              TexWritten(r + 1, 0) => TexCellAt(r + 1, 0) = Rule30(0, TexCellAt(r, 0), 0)

C4_Witness ==
    /\ width = 1
    /\ maxGenerations >= 3
    /\ Size(allGenerations) = maxGenerations
    /\ tpc = "done"

\* C8: the finished texture and the finished generation list show the same grid:
\* the red byte of (row, col) is non-zero, and then 255, exactly when
\* generations[row][col] = 1.
C8_TextureMatchesList ==
    (pc = "mounted" /\ tpc = "done") =>
        \A r \in 0..(maxGenerations - 1) : \A c \in Cols :
            /\ (data[(r * width + c) * 4] # 0) <=> (generations[r][c] = 1)
            /\ data[(r * width + c) * 4] \in {0, 255}

C8_Witness ==
    /\ pc = "mounted"
    /\ tpc = "done"
    /\ maxGenerations >= 3
    /\ width >= 3
    /\ \E r \in 1..(maxGenerations - 1) : \E c \in Cols : generations[r][c] = 0 /\ c # 0
    /\ \E r \in 1..(maxGenerations - 1) : generations[r][0] = 1

\* the (row, col) an instance position stands for
CellOfPosition(pos) == <<30 - (pos[2] \div 2), (pos[1] + width) \div 2>>

RowMajorBefore(a, b) == a[1] < b[1] \/ (a[1] = b[1] /\ a[2] < b[2])

LiveCellsShown(f) ==
    {rc \in (0..(Min(f + 1, Size(generations)) - 1)) \X Cols : generations[rc[1]][rc[2]] = 1}

\* C9: once the update effect has run for the committed frame f, the mesh holds one
\* instance per live cell of generations 0 .. min(f+1, G)-1, instance k being the
\* k-th of them in row-major ascending order, and cells.count is their number.
C9_InstancesAreLiveCells ==
    view.cells = "mesh" =>
        LET live == LiveCellsShown(view.frame)
        IN  /\ mesh.count = Cardinality(live)
            /\ \A k \in 0..(mesh.count - 1) :
                  LET rc == CellOfPosition(mesh.matrix[k])
                  IN  /\ mesh.matrix[k] = InstancePosition(rc[2], rc[1], width)
                      /\ rc \in live
                      /\ Cardinality({e \in live : RowMajorBefore(e, rc)}) = k

\* the effect has run for a frame that shows three rows or more
C9_Witness ==
    /\ view.cells = "mesh"
    /\ view.frame >= 2
    /\ maxGenerations >= 3
    /\ mesh.count >= 5

\* ===================================================== the recursive solids
\* Lengths are exact: a Cube length is an integer multiple of 1 / CubeUnit, a
\* Tetrahedron length of 1 / TetrahedronUnit, so that every size / 3 and size / 2
\* the components compute is an exact integer division. A Torus radius
\* (num / den) * (2 / pi)^k is the record [num, den, k]. The scale state is
\* counted in thousandths.

\* the depth props' default values
CubeDefaultDepth == 3
TetrahedronDefaultDepth == 4
TorusDefaultDepth == 6

CubeUnit == 3 ^ (MaxCubeDepth + CubeDefaultDepth)

TetrahedronUnit == 2 ^ (MaxTetrahedronDepth + TetrahedronDefaultDepth)

Abs(v) == IF v < 0 THEN 0 - v ELSE v

\* a % b of JavaScript: the sign of the dividend
JsMod(a, b) == IF a >= 0 THEN a % b ELSE 0 - ((0 - a) % b)

\* palette[idx] of a JavaScript array
ArrayAt(palette, idx) == IF idx \in 0..(Len(palette) - 1) THEN palette[idx + 1] ELSE "undefined"

\* ------------------------------------------------------------------- Cube

CubeDepthColors == <<"#ff5555", "#55ff55", "#5555ff", "#ffff55", "#ff55ff">>

CubeRoot(depth) ==
    [position |-> <<0, 0, 0>>, size |-> 3 * CubeUnit, depth |-> depth, delay |-> 0,
     show |-> FALSE, showChildren |-> FALSE, scale |-> 1]

\* the cells the three nested loops visit, x outermost, z innermost
CubeGrid == [t \in 1..27 |-> <<((t - 1) \div 9) - 1, (((t - 1) \div 3) % 3) - 1, ((t - 1) % 3) - 1>>]

\* every face centre kept as well
CubeKeepFaces(cell) == Abs(cell[1]) + Abs(cell[2]) + Abs(cell[3]) > 0

CubeKeep(cell) == Abs(cell[1]) + Abs(cell[2]) + Abs(cell[3]) > 1

\* children nested below depth 0 as well
CubeSubdividesAlways(n) == n.depth >= 0 /\ n.showChildren

CubeSubdivides(n) == n.depth > 0 /\ n.showChildren

\* the offset is the parent's size, not a third of it
CubeOffsetFull(size) == size

CubeOffset(size) == size \div 3

\* the child keeps the parent's size
CubeNewSizeSame(size) == size

CubeNewSize(size) == size \div 3

CubeChild(n, cell) ==
    [position |-> <<n.position[1] + cell[1] * CubeOffset(n.size),
                    n.position[2] + cell[2] * CubeOffset(n.size),
                    n.position[3] + cell[3] * CubeOffset(n.size)>>,
     size |-> CubeNewSize(n.size), depth |-> n.depth - 1, delay |-> 200,
     show |-> FALSE, showChildren |-> FALSE, scale |-> 1]

\* childCubes of one render of node n
CubeChildren(n) ==
    IF CubeSubdivides(n)
    THEN LET kept == SelectSeq(CubeGrid, CubeKeep)
         IN  [k \in 1..Len(kept) |-> CubeChild(n, kept[k])]
    ELSE <<>>

CubeColorIndex(depth) == Min(4 - depth, Len(CubeDepthColors) - 1)

CubeColor(depth) == ArrayAt(CubeDepthColors, CubeColorIndex(depth))

\* ------------------------------------------------------------ Tetrahedron

TetrahedronDepthColors == <<"#ff3333", "#33ff33", "#3333ff", "#ffff33", "#ff33ff", "#33ffff">>

TetrahedronRoot(depth) ==
    [position |-> <<0, 0, 0>>, size |-> 5 * TetrahedronUnit, depth |-> depth, delay |-> 0,
     color |-> "undefined", show |-> ~(depth > 0), showChildren |-> FALSE, scale |-> 1]

\* the top vertex put below the centre like the base
TetrahedronVerticesAllBelow(position, halfSize) ==
    << <<position[1], position[2] - halfSize, position[3]>>,
       <<position[1] - halfSize, position[2] - halfSize, position[3] - halfSize>>,
       <<position[1] + halfSize, position[2] - halfSize, position[3] - halfSize>>,
       <<position[1], position[2] - halfSize, position[3] + halfSize>> >>

TetrahedronVertices(position, halfSize) ==
    << <<position[1], position[2] + halfSize, position[3]>>,
       <<position[1] - halfSize, position[2] - halfSize, position[3] - halfSize>>,
       <<position[1] + halfSize, position[2] - halfSize, position[3] - halfSize>>,
       <<position[1], position[2] - halfSize, position[3] + halfSize>> >>

TetrahedronSubdivides(n) == n.depth > 0 /\ n.showChildren

\* childTetrahedra of one render of node n; the loop index i is k - 1
TetrahedronChildren(n) ==
    IF TetrahedronSubdivides(n)
    THEN [k \in 1..4 |->
            [position |-> TetrahedronVertices(n.position, n.size \div 2)[k],
             size |-> n.size \div 2, depth |-> n.depth - 1, delay |-> 300,
             color |-> ArrayAt(TetrahedronDepthColors,
                               JsMod(5 - n.depth + (k - 1), Len(TetrahedronDepthColors))),
             show |-> ~(n.depth - 1 > 0), showChildren |-> FALSE, scale |-> 1]]
    ELSE <<>>

TetrahedronColor(n) ==
    IF n.color # "undefined"
    THEN n.color
    ELSE ArrayAt(TetrahedronDepthColors, JsMod(5 - n.depth, Len(TetrahedronDepthColors)))

\* ------------------------------------------------------------------ Torus

TorusDepthColors == <<"#ff0000", "#00ff00", "#0000ff", "#ffff00", "#ff00ff">>

\* the root is not wrapped in a <group>
TorusRoot(depth) ==
    [position |-> <<0, 0, 0>>, radius |-> [num |-> 4, den |-> 1, k |-> 0],
     tubeRadius |-> [num |-> 2, den |-> 1, k |-> 0], depth |-> depth, delay |-> 0,
     group |-> "none",
     show |-> ~(depth > 0), showChildren |-> FALSE, scale |-> 1]

\* tubeRadius / (Math.PI / 2)
TorusChildRadius(tubeRadius) == [tubeRadius EXCEPT !.k = @ + 1]

\* childRadius / 2
TorusChildTubeRadius(childRadius) ==
    IF childRadius.num % 2 = 0
    THEN [childRadius EXCEPT !.num = @ \div 2]
    ELSE [childRadius EXCEPT !.den = @ * 2]

TorusSubdivides(n) == n.depth > 0 /\ n.showChildren

\* Math.cos and Math.sin of (i * Math.PI) / 2, as the real functions they
\* approximate: the four values are exact
CosQuarter(j) == CASE j % 4 = 0 -> 1 [] j % 4 = 1 -> 0 [] j % 4 = 2 -> -1 [] j % 4 = 3 -> 0

SinQuarter(j) == CASE j % 4 = 0 -> 0 [] j % 4 = 1 -> 1 [] j % 4 = 2 -> 0 [] j % 4 = 3 -> -1

\* Math.atan2(y, x) of an axis direction, in quarter turns; -pi and pi, which
\* differ by a full turn, are both 2
Atan2Quarter(y, x) ==
    CASE x = 1 /\ y = 0 -> 0
      [] x = 0 /\ y = 1 -> 1
      [] x = -1 /\ y = 0 -> 2
      [] x = 0 /\ y = -1 -> 3

\* c * radius for c in {-1, 0, 1}
TorusTimes(c, radius) == [radius EXCEPT !.num = c * @]

\* x and y swapped
TorusChildOffsetSwapped(j, radius) ==
    <<TorusTimes(SinQuarter(j), radius), TorusTimes(CosQuarter(j), radius)>>

\* x and y of child i
TorusChildOffset(j, radius) ==
    <<TorusTimes(CosQuarter(j), radius), TorusTimes(SinQuarter(j), radius)>>

\* the <group> around child j. A coordinate position[..] + x is kept as its two
\* summands [base, offset]; angles are in quarter turns.
TorusChildGroup(n, j) ==
    [position |-> <<[base |-> n.position[1], offset |-> TorusChildOffset(j, n.radius)[1]],
                    [base |-> n.position[2], offset |-> TorusChildOffset(j, n.radius)[2]],
                    n.position[3]>>,
     rotation |-> <<1, 1, Atan2Quarter(0 - SinQuarter(j), 0 - CosQuarter(j))>>]

\* childTori of one render of node n
TorusChildren(n) ==
    IF TorusSubdivides(n)
    THEN [k \in 1..4 |->
            [position |-> <<0, 0, 0>>,
             radius |-> TorusChildRadius(n.tubeRadius),
             tubeRadius |-> TorusChildTubeRadius(TorusChildRadius(n.tubeRadius)),
             depth |-> n.depth - 1, delay |-> 500,
             group |-> TorusChildGroup(n, k - 1),
             show |-> ~(n.depth - 1 > 0), showChildren |-> FALSE, scale |-> 1]]
    ELSE <<>>

TorusColorIndex(depth) == 4 - depth

TorusColor(depth) ==
    IF ArrayAt(TorusDepthColors, TorusColorIndex(depth)) = "undefined"
    THEN "#ffffff"
    ELSE ArrayAt(TorusDepthColors, TorusColorIndex(depth))

\* ------------------------------------------------------------ the timers

\* setTimeout: the queue is kept in firing order, so the callback goes after every
\* pending one that is due no later and before those that are due later
SetTimeout(q, t) ==
    LET n == Len(q) - Cardinality({k \in 1..Len(q) : q[k].due > t.due})
    IN  SubSeq(q, 1, n) \o <<t>> \o SubSeq(q, n + 1, Len(q))

\* the effects of freshly mounted children p \o <<k-1>>, run in order: each
\* schedules its outer timer, at the time of the commit that mounts them
RECURSIVE MountEffects(_, _, _, _, _)
MountEffects(q, p, children, k, t) ==
    IF k > Len(children) THEN q
    ELSE \* s is the queue after the k-th setTimeout, bound so that it is evaluated once
         CHOOSE r \in {MountEffects(s, p, children, k + 1, t) :
                          s \in {SetTimeout(q, [path |-> Append(p, k - 1), inner |-> FALSE,
                                                 mount |-> mounts,
                                                 due |-> t + children[k].delay])}} : TRUE

\* the child timer scheduled without its delay
ShowTimerAtOnce(p, childDelay) ==
    /\ nodes' = [nodes EXCEPT ![p].show = TRUE]
    /\ timers' = SetTimeout(Tail(timers), [path |-> p, inner |-> TRUE, mount |-> mounts,
                                            due |-> now'])

\* the outer timer of node p: setShow(true), and the child timer is scheduled
ShowTimer(p, childDelay) ==
    /\ nodes' = [nodes EXCEPT ![p].show = TRUE]
    /\ timers' = SetTimeout(Tail(timers), [path |-> p, inner |-> TRUE, mount |-> mounts,
                                            due |-> now' + childDelay])

\* the child timer of node p: setShowChildren(true); the render that follows
\* mounts the children it returns, at the time the timer fires
ShowChildrenTimer(p, children) ==
    /\ nodes' = [nodes EXCEPT ![p].showChildren = TRUE]
                 @@ [q \in {Append(p, k - 1) : k \in 1..Len(children)} |-> children[q[Len(q)] + 1]]
    /\ timers' = MountEffects(Tail(timers), p, children, 1, Head(timers).due)

\* the first pending timer fires; with frames running, only once every frame
\* that comes before it has been drawn
TimerDue(k, inner) ==
    /\ kind = k
    /\ timers # <<>>
    /\ Head(timers).inner = inner
    /\ Head(timers).mount = mounts
    /\ frameMs = 0 \/ Head(timers).due <= nextFrame
    /\ now' = Head(timers).due

CubeShow ==
    /\ TimerDue("Cube", FALSE)
    /\ ShowTimer(Head(timers).path, 700)
    /\ UNCHANGED <<kind, rootDepth>>
    /\ UNCHANGED <<caVars, frameVars, callVars, galleryVars>>

CubeShowChildren ==
    /\ TimerDue("Cube", TRUE)
    /\ LET p == Head(timers).path
       IN  ShowChildrenTimer(p, IF nodes[p].show
                                THEN CubeChildren([nodes[p] EXCEPT !.showChildren = TRUE])
                                ELSE <<>>)
    /\ UNCHANGED <<kind, rootDepth>>
    /\ UNCHANGED <<caVars, frameVars, callVars, galleryVars>>

TetrahedronShow ==
    /\ TimerDue("Tetrahedron", FALSE)
    /\ ShowTimer(Head(timers).path, 1000)
    /\ UNCHANGED <<kind, rootDepth>>
    /\ UNCHANGED <<caVars, frameVars, callVars, galleryVars>>

TetrahedronShowChildren ==
    /\ TimerDue("Tetrahedron", TRUE)
    /\ LET p == Head(timers).path
       IN  ShowChildrenTimer(p, IF nodes[p].show
                                THEN TetrahedronChildren([nodes[p] EXCEPT !.showChildren = TRUE])
                                ELSE <<>>)
    /\ UNCHANGED <<kind, rootDepth>>
    /\ UNCHANGED <<caVars, frameVars, callVars, galleryVars>>

TorusShow ==
    /\ TimerDue("Torus", FALSE)
    /\ ShowTimer(Head(timers).path, 1000)
    /\ UNCHANGED <<kind, rootDepth>>
    /\ UNCHANGED <<caVars, frameVars, callVars, galleryVars>>

TorusShowChildren ==
    /\ TimerDue("Torus", TRUE)
    /\ LET p == Head(timers).path
       IN  ShowChildrenTimer(p, IF nodes[p].show
                                THEN TorusChildren([nodes[p] EXCEPT !.showChildren = TRUE])
                                ELSE <<>>)
    /\ UNCHANGED <<kind, rootDepth>>
    /\ UNCHANGED <<caVars, frameVars, callVars, galleryVars>>

\* the root component is mounted: its first render and its effect
MountRoot(k, root) ==
    /\ kind = k
    /\ nodes = (<<>> :> root)
    /\ timers = <<[path |-> <<>>, inner |-> FALSE, mount |-> 0, due |-> root.delay]>>
    /\ now = 0

\* no Rule 30 component is mounted and createRule30Texture is not running
IdleCA ==
    /\ width = 1
    /\ maxGenerations = 1
    /\ pc = "off"
    /\ allGenerations = Fill(1, InitialState(1))
    /\ i = 0
    /\ generations = <<>>
    /\ cells = "null"
    /\ frame = 0
    /\ view = [frame |-> 0, generations |-> <<>>, cells |-> "null"]
    /\ ticks = 0
    /\ mesh = NoMesh
    /\ tpc = "off"
    /\ data = <<>>
    /\ ty = 0
    /\ tx = 0
    /\ dataId = 0
    /\ prior = NoBuffer
    /\ NoClicks

InitTree ==
    /\ \/ rootDepth \in 0..MaxCubeDepth /\ MountRoot("Cube", CubeRoot(rootDepth))
       \/ rootDepth \in 0..MaxTetrahedronDepth /\ MountRoot("Tetrahedron", TetrahedronRoot(rootDepth))
       \/ rootDepth \in 0..MaxTorusDepth /\ MountRoot("Torus", TorusRoot(rootDepth))
    /\ frameMs = 0
    /\ nextFrame = 0
    /\ IdleCA

NextTree ==
    \/ CubeShow
    \/ CubeShowChildren
    \/ TetrahedronShow
    \/ TetrahedronShowChildren
    \/ TorusShow
    \/ TorusShowChildren

SpecTree == InitTree /\ [][NextTree]_vars

\* -------------------------------------------------- the solids: properties

Parent(p) == SubSeq(p, 1, Len(p) - 1)

\* the child indices mounted below p (no component pushes more than 27 children)
ChildIndices(p) == {k \in 0..26 : Append(p, k) \in DOMAIN nodes}

Generated(p) == nodes[p].show /\ nodes[p].showChildren /\ nodes[p].depth > 0

AllTimersFired == timers = <<>>

Level(lvl) == {p \in DOMAIN nodes : Len(p) = lvl}

\* the number of children the subdivision rule of each solid prescribes
ChildCount == IF kind = "Cube" THEN 20 ELSE 4

Clamp(v, lo, hi) == IF v < lo THEN lo ELSE IF v > hi THEN hi ELSE v

\* C5: a node at level k has remaining depth D - k >= 0; a child has its parent's
\* remaining depth minus one and a parent with remaining depth > 0; a node with
\* remaining depth 0 has no children; once all timers have fired every node is
\* shown, every node with remaining depth > 0 has children, the deepest level is
\* D, and D = 0 leaves the root alone.
C5_TreeDepthIsExact ==
    /\ \A p \in DOMAIN nodes :
          /\ nodes[p].depth = rootDepth - Len(p)
          /\ nodes[p].depth >= 0
          /\ Len(p) <= rootDepth
          /\ p # <<>> =>
                /\ Parent(p) \in DOMAIN nodes
                /\ nodes[Parent(p)].depth > 0
                /\ nodes[p].depth = nodes[Parent(p)].depth - 1
          /\ nodes[p].depth = 0 => ChildIndices(p) = {}
    /\ AllTimersFired =>
          /\ \A p \in DOMAIN nodes :
                /\ nodes[p].show
                /\ nodes[p].depth > 0 => ChildIndices(p) # {}
          /\ Level(rootDepth) # {}
          /\ rootDepth = 0 => DOMAIN nodes = {<<>>}

\* a finished Torus tree of three levels below the root
C5_Witness ==
    /\ kind = "Torus"
    /\ rootDepth >= 3
    /\ AllTimersFired
    /\ Level(rootDepth) # {}

\* C6: a node whose children are generated has exactly 20 (Cube), 4 (Tetrahedron)
\* or 4 (Torus) of them, and the finished tree holds 20^k, 4^k, 4^k nodes on level k.
C6_ChildCounts ==
    /\ \A p \in DOMAIN nodes :
          /\ Generated(p) => ChildIndices(p) = 0..(ChildCount - 1)
          /\ ~Generated(p) => ChildIndices(p) = {}
    /\ AllTimersFired =>
          \A lvl \in 0..rootDepth : Cardinality(Level(lvl)) = ChildCount ^ lvl

\* a finished Cube tree with 400 nodes on level 2
C6_Witness ==
    /\ kind = "Cube"
    /\ rootDepth = 2
    /\ AllTimersFired
    /\ Cardinality(Level(2)) = 400

Cells27 == {-1, 0, 1} \X {-1, 0, 1} \X {-1, 0, 1}

CellPosition(n, cell) ==
    <<n.position[1] + cell[1] * (n.size \div 3),
      n.position[2] + cell[2] * (n.size \div 3),
      n.position[3] + cell[3] * (n.size \div 3)>>

\* C7: a Cube node whose children are generated has a child at grid cell (x, y, z)
\* of {-1,0,1}^3 exactly when |x|+|y|+|z| > 1; each child has a third of the
\* parent's size and sits at the parent's position plus (x, y, z) * size / 3, and
\* no two children share a position.
C7_CubeCells ==
    kind = "Cube" =>
        \A p \in DOMAIN nodes :
            Generated(p) =>
                LET childPositions == {nodes[Append(p, k)].position : k \in ChildIndices(p)}
                    keptCells == {cell \in Cells27 : Abs(cell[1]) + Abs(cell[2]) + Abs(cell[3]) > 1}
                    droppedCells == Cells27 \ keptCells
                IN  /\ nodes[p].size % 3 = 0
                    /\ childPositions = {CellPosition(nodes[p], cell) : cell \in keptCells}
                    /\ \A cell \in droppedCells : CellPosition(nodes[p], cell) \notin childPositions
                    /\ Cardinality(childPositions) = Cardinality(ChildIndices(p))
                    /\ \A k \in ChildIndices(p) : nodes[Append(p, k)].size * 3 = nodes[p].size

\* a child of an off-centre parent has generated its own children
C7_Witness ==
    /\ kind = "Cube"
    /\ \E p \in DOMAIN nodes :
          /\ Len(p) = 1
          /\ nodes[p].position # <<0, 0, 0>>
          /\ Generated(p)
          /\ Cardinality(ChildIndices(p)) = 20

\* C10: every rendered Cube or Torus node is coloured with palette index
\* clamp(maxDepth - depthRemaining, 0, paletteSize - 1), the root with index 0.
C10_ColorIndexIsClampedLevel ==
    \A p \in DOMAIN nodes :
        nodes[p].show =>
            /\ kind = "Cube" =>
                  CubeColorIndex(nodes[p].depth)
                      = Clamp(rootDepth - nodes[p].depth, 0, Len(CubeDepthColors) - 1)
            /\ kind = "Torus" =>
                  TorusColorIndex(nodes[p].depth)
                      = Clamp(rootDepth - nodes[p].depth, 0, Len(TorusDepthColors) - 1)

\* the colour the material of node n is given
DisplayColor(n) ==
    CASE kind = "Cube" -> CubeColor(n.depth)
      [] kind = "Tetrahedron" -> TetrahedronColor(n)
      [] kind = "Torus" -> TorusColor(n.depth)

\* the nodes on show with remaining depth d
ShownAtDepth(d) == {p \in DOMAIN nodes : nodes[p].show /\ nodes[p].depth = d}

\* C11: in any one tree, all displayed nodes with the same remaining depth have the
\* same colour, whatever their sibling position.
C11_ColourByDepthOnly ==
    \A d \in 0..rootDepth :
        Cardinality({DisplayColor(nodes[p]) : p \in ShownAtDepth(d)}) <= 1

\* ------------------------------------------- one path of the default trees
\* <Cube />, <Tetrahedron /> and <Torus /> with their default props, once the
\* timers on the way have fired: each step is the render of the deepest node
\* reached with show and showChildren set, and the mount and reveal of one of the
\* children that render returns. nodes holds the path walked so far.

WalkTip == CHOOSE p \in DOMAIN nodes : Len(p) = Cardinality(DOMAIN nodes) - 1

Revealed(n) == [n EXCEPT !.show = TRUE, !.showChildren = TRUE]

DescendTo(children, k) ==
    /\ timers = <<>>
    /\ k \in 1..Len(children)
    /\ nodes' = [nodes EXCEPT ![WalkTip] = Revealed(@)]
                 @@ (Append(WalkTip, k - 1) :> [children[k] EXCEPT !.show = TRUE])
    /\ UNCHANGED <<kind, rootDepth, timers, now>>
    /\ UNCHANGED <<caVars, frameVars, callVars, galleryVars>>

CubeDescend ==
    /\ kind = "Cube"
    /\ \E k \in 1..27 : DescendTo(CubeChildren(Revealed(nodes[WalkTip])), k)

TetrahedronDescend ==
    /\ kind = "Tetrahedron"
    /\ \E k \in 1..4 : DescendTo(TetrahedronChildren(Revealed(nodes[WalkTip])), k)

TorusDescend ==
    /\ kind = "Torus"
    /\ \E k \in 1..4 : DescendTo(TorusChildren(Revealed(nodes[WalkTip])), k)

WalkRoot(k, root) ==
    /\ kind = k
    /\ rootDepth = root.depth
    /\ nodes = (<<>> :> [root EXCEPT !.show = TRUE])
    /\ timers = <<>>
    /\ now = 0

InitWalk ==
    /\ \/ WalkRoot("Cube", CubeRoot(CubeDefaultDepth))
       \/ WalkRoot("Tetrahedron", TetrahedronRoot(TetrahedronDefaultDepth))
       \/ WalkRoot("Torus", TorusRoot(TorusDefaultDepth))
    /\ frameMs = 0
    /\ nextFrame = 0
    /\ IdleCA

NextWalk ==
    \/ CubeDescend
    \/ TetrahedronDescend
    \/ TorusDescend

SpecWalk == InitWalk /\ [][NextWalk]_vars

\* C12: in the Torus tree of the default depth 6, nodes on different depth levels
\* are displayed in different colours.
C12_TorusLevelColoursDiffer ==
    (kind = "Torus" /\ rootDepth = TorusDefaultDepth) =>
        \A p \in DOMAIN nodes : \A q \in DOMAIN nodes :
            (nodes[p].show /\ nodes[q].show /\ nodes[p].depth # nodes[q].depth)
                => DisplayColor(nodes[p]) # DisplayColor(nodes[q])

\* a Torus radius is a positive number
TorusPositive(r) == r.num > 0 /\ r.den > 0

\* a < b for Torus radii a = (a.num / a.den) * (2 / pi)^(j + 1) and
\* b = (b.num / b.den) * (2 / pi)^j: a < b iff 2 * a.num * b.den < pi * b.num * a.den,
\* which holds whenever 2 * a.num * b.den <= 3 * b.num * a.den, as 3 < pi
TorusLess(a, b) ==
    /\ a.k = b.k + 1
    /\ TorusPositive(a)
    /\ TorusPositive(b)
    /\ 2 * a.num * b.den <= 3 * b.num * a.den

\* C13: along every path from the root the size stays strictly positive and
\* strictly decreases: a Cube child has a third and a Tetrahedron child a half of
\* its parent's size, and a Torus child's major radius is smaller than its
\* parent's (root radius 4, tube radius 2, default depths).
C13_SizeShrinks ==
    \A p \in DOMAIN nodes :
        /\ kind = "Cube" =>
              /\ nodes[p].size > 0
              /\ p # <<>> =>
                    /\ nodes[p].size * 3 = nodes[Parent(p)].size
                    /\ nodes[p].size < nodes[Parent(p)].size
        /\ kind = "Tetrahedron" =>
              /\ nodes[p].size > 0
              /\ p # <<>> =>
                    /\ nodes[p].size * 2 = nodes[Parent(p)].size
                    /\ nodes[p].size < nodes[Parent(p)].size
        /\ kind = "Torus" =>
              /\ TorusPositive(nodes[p].radius)
              /\ p # <<>> => TorusLess(nodes[p].radius, nodes[Parent(p)].radius)

\* a whole path of the default Torus, from the root down to a leaf
C13_Witness ==
    /\ kind = "Torus"
    /\ nodes[<<>>].radius = [num |-> 4, den |-> 1, k |-> 0]
    /\ nodes[<<>>].tubeRadius = [num |-> 2, den |-> 1, k |-> 0]
    /\ Cardinality(DOMAIN nodes) = TorusDefaultDepth + 1
    /\ nodes[WalkTip].depth = 0

\* a = b for Torus lengths: both are zero, or (pi being transcendental) the
\* powers of 2 / pi agree and so do the rational factors
TorusEqual(a, b) ==
    \/ a.num = 0 /\ b.num = 0
    \/ a.k = b.k /\ a.num * b.den = b.num * a.den

\* C14: every child of a Torus node with remaining depth > 0 has the parent's tube
\* radius as its major radius, and half its own major radius as its tube radius.
C14_ChildRadiusIsParentTube ==
    kind = "Torus" =>
        \A p \in DOMAIN nodes :
            p # <<>> =>
                /\ TorusEqual(nodes[p].radius, nodes[Parent(p)].tubeRadius)
                /\ TorusEqual([nodes[p].tubeRadius EXCEPT !.num = @ * 2], nodes[p].radius)

\* the unit vector of an angle given in quarter turns
QuarterDirection(q) ==
    CASE q % 4 = 0 -> <<1, 0>> [] q % 4 = 1 -> <<0, 1>> [] q % 4 = 2 -> <<-1, 0>> [] q % 4 = 3 -> <<0, -1>>

\* the four points of the major circle, as factors of R, in child order
MajorCirclePoints == <<<<1, 0>>, <<0, 1>>, <<-1, 0>>, <<0, -1>>>>

\* C15: child i of a Torus node with remaining depth > 0, position P and major
\* radius R sits in a group at P + (R, 0, 0), P + (0, R, 0), P + (-R, 0, 0),
\* P + (0, -R, 0) for i = 0, 1, 2, 3, and the group's z-rotation points from there
\* to the parent's centre.
C15_ChildrenOnMajorCircle ==
    kind = "Torus" =>
        \A p \in DOMAIN nodes :
            Generated(p) =>
                \A j \in 0..3 :
                    LET g == nodes[Append(p, j)].group
                        R == nodes[p].radius
                        P == nodes[p].position
                        pt == MajorCirclePoints[j + 1]
                    IN  /\ g.position[1].base = P[1]
                        /\ TorusEqual(g.position[1].offset, [R EXCEPT !.num = pt[1] * @])
                        /\ g.position[2].base = P[2]
                        /\ TorusEqual(g.position[2].offset, [R EXCEPT !.num = pt[2] * @])
                        /\ g.position[3] = P[3]
                        /\ QuarterDirection(g.rotation[3]) = <<0 - pt[1], 0 - pt[2]>>

\* a Torus below the root has mounted its four children
C15_Witness ==
    /\ kind = "Torus"
    /\ \E p \in DOMAIN nodes :
          /\ Len(p) = 1
          /\ Generated(p)
          /\ ChildIndices(p) = 0..3
          /\ nodes[Append(p, 2)].group.position[1].offset.num < 0

\* C16: a Tetrahedron node with remaining depth > 0, size s and position p has 4
\* children of size s / 2 at p + (0, +h, 0), p + (-h, -h, -h), p + (+h, -h, -h) and
\* p + (0, -h, +h) with h = s / 2: one child up the y axis, three at y = p.y - h.
C16_TetrahedronChildren ==
    kind = "Tetrahedron" =>
        \A p \in DOMAIN nodes :
            Generated(p) =>
                LET s == nodes[p].size
                    P == nodes[p].position
                    child(c) == nodes[Append(p, c)]
                IN  /\ ChildIndices(p) = 0..3
                    /\ \A c \in 0..3 : child(c).size * 2 = s
                    /\ \A c \in 0..3 : \E h \in 1..s :
                          /\ h * 2 = s
                          /\ c = 0 => child(c).position = <<P[1], P[2] + h, P[3]>>
                          /\ c = 1 => child(c).position = <<P[1] - h, P[2] - h, P[3] - h>>
                          /\ c = 2 => child(c).position = <<P[1] + h, P[2] - h, P[3] - h>>
                          /\ c = 3 => child(c).position = <<P[1], P[2] - h, P[3] + h>>
                    /\ child(0).position[2] > P[2]
                    /\ \A c \in 1..3 : child(c).position[2] + child(c).size = P[2]

\* a Tetrahedron below the root, away from the origin, has mounted its children
C16_Witness ==
    /\ kind = "Tetrahedron"
    /\ \E p \in DOMAIN nodes :
          /\ Len(p) = 1
          /\ nodes[p].position # <<0, 0, 0>>
          /\ Generated(p)
          /\ ChildIndices(p) = 0..3

\* ------------------------------------- calls with parameters of any sign
\* createRule30Texture(width, height) and the three solids' roots called with
\* valid and with invalid parameters alike. new Uint8Array(n) throws a RangeError
\* for n < 0, the only rejection there is in the code.

\* the inner for-loop of row ty has no iteration (width <= 0)
TexEmptyRow ==
    /\ tpc = "loop"
    /\ ty < maxGenerations - 1
    /\ ~(tx < width)
    /\ ty' = ty + 1
    /\ UNCHANGED <<width, maxGenerations, tpc, data, tx>>
    /\ UNCHANGED listVars
    /\ UNCHANGED <<treeVars, frameVars, callVars, galleryVars>>

\* how far below zero the parameters go
MaxInvalid == 1

InitAnyCall ==
    /\ width \in (0 - MaxInvalid)..MaxWidth
    /\ maxGenerations \in (0 - MaxInvalid)..MaxGens
    /\ IF width * maxGenerations * 4 < 0
       THEN tpc = "RangeError" /\ data = <<>>
       ELSE tpc = "clear" /\ data = Fill(width * maxGenerations * 4, 0)
    /\ ty = 0
    /\ tx = 0
    /\ pc = "off"
    /\ allGenerations = Fill(1, InitialState(1))
    /\ i = 0
    /\ generations = <<>>
    /\ cells = "null"
    /\ frame = 0
    /\ view = [frame |-> 0, generations |-> <<>>, cells |-> "null"]
    /\ ticks = 0
    /\ mesh = NoMesh
    /\ dataId = 1
    /\ prior = NoBuffer
    /\ rootDepth \in (0 - MaxInvalid)..0
    /\ \/ MountRoot("Cube", CubeRoot(rootDepth))
       \/ MountRoot("Tetrahedron", TetrahedronRoot(rootDepth))
       \/ MountRoot("Torus", TorusRoot(rootDepth))
    /\ frameMs = 0
    /\ nextFrame = 0
    /\ NoClicks

NextAnyCall ==
    \/ TexClear
    \/ TexSeed
    \/ TexCell
    \/ TexEmptyRow
    \/ TexReturn
    \/ CubeShow
    \/ CubeShowChildren
    \/ TetrahedronShow
    \/ TetrahedronShowChildren
    \/ TorusShow
    \/ TorusShowChildren

SpecAnyCall == InitAnyCall /\ [][NextAnyCall]_vars

\* C17: a call with maxDepth < 0, rootSize <= 0, width <= 0 or
\* generationCount <= 0 is rejected before any work: no texture is returned and
\* no node is rendered.
C17_InvalidParameterRejected ==
    /\ (width <= 0 \/ maxGenerations <= 0) => tpc # "done"
    /\ (rootDepth < 0 \/ (kind # "Torus" /\ nodes[<<>>].size <= 0)) =>
          \A p \in DOMAIN nodes : ~nodes[p].show

\* ------------------------------------------------- the second invocation
\* createRule30Texture called again with the same arguments while the caller
\* still holds, changes or drops the first texture, and Rule30Visualization
\* mounted again after the gallery has switched away and back.

\* the buffer of the call before is handed out again
SharedBufferId(last) == last

\* new Uint8Array: a buffer no earlier call has allocated
NewBufferId(last) == last + 1

\* the first call has returned; the second one starts
CallAgain ==
    /\ tpc = "done"
    /\ prior.id = 0
    /\ prior' = [prior EXCEPT !.id = dataId, !.bytes = data, !.returned = data]
    /\ dataId' = NewBufferId(dataId)
    /\ data' = Fill(width * maxGenerations * 4, 0)
    /\ tpc' = "clear"
    /\ ty' = 0
    /\ tx' = 0
    /\ UNCHANGED <<width, maxGenerations>>
    /\ UNCHANGED listVars
    /\ UNCHANGED <<treeVars, frameVars, galleryVars>>

\* the bytes the holder of the first texture may overwrite: the first one and the seed
ScribbleIndices == {0, SeedIndex(width)}

\* the holder of the first texture writes into its buffer; the store reaches the
\* running call's buffer exactly if the two are one buffer
MutatePrior ==
    /\ prior.id # 0
    /\ prior.bytes = prior.returned
    /\ \E k \in ScribbleIndices :
          /\ prior' = [prior EXCEPT !.bytes = Store(@, k, 7)]
          /\ data' = IF prior.id = dataId THEN Store(data, k, 7) ELSE data
    /\ UNCHANGED <<width, maxGenerations, tpc, ty, tx, dataId>>
    /\ UNCHANGED listVars
    /\ UNCHANGED <<treeVars, frameVars, galleryVars>>

\* the holder of the first texture drops it
DiscardPrior ==
    /\ prior.id # 0
    /\ prior.bytes # <<>>
    /\ prior' = [prior EXCEPT !.bytes = <<>>]
    /\ data' = IF prior.id = dataId THEN <<>> ELSE data
    /\ UNCHANGED <<width, maxGenerations, tpc, ty, tx, dataId>>
    /\ UNCHANGED listVars
    /\ UNCHANGED <<treeVars, frameVars, galleryVars>>

\* Rule30Visualization is unmounted and mounted again: fresh state, and the
\* mount effect starts over with its own local allGenerations
Remount ==
    /\ pc = "mounted"
    /\ prior.generations = <<>>
    /\ prior' = [prior EXCEPT !.generations = generations]
    /\ pc' = "mount"
    /\ allGenerations' = Fill(1, InitialState(width))
    /\ i' = 0
    /\ generations' = <<>>
    /\ cells' = "null"
    /\ frame' = 0
    /\ view' = [frame |-> 0, generations |-> <<>>, cells |-> "null"]
    /\ ticks' = 0
    /\ mesh' = NoMesh
    /\ UNCHANGED <<width, maxGenerations, dataId>>
    /\ UNCHANGED texVars
    /\ UNCHANGED <<treeVars, frameVars, galleryVars>>

NextTwice ==
    \/ EvolveRow
    \/ FinishMount
    \/ Remount
    \/ TexClear
    \/ TexSeed
    \/ TexCell
    \/ TexReturn
    \/ CallAgain
    \/ MutatePrior
    \/ DiscardPrior

SpecTwice == InitCA /\ [][NextTwice]_vars

LiveCA ==
    /\ SpecCA
    /\ WF_vars(EvolveRow)
    /\ WF_vars(FinishMount)
    /\ WF_vars(TexClear)
    /\ WF_vars(TexSeed)
    /\ WF_vars(TexCell)
    /\ WF_vars(TexReturn)

\* the rows g are a full grid of 0s and 1s
FullGrid(g) ==
    /\ DOMAIN g = 0..(maxGenerations - 1)
    /\ \A y \in DOMAIN g :
          /\ DOMAIN g[y] = 0..(width - 1)
          /\ \A x \in DOMAIN g[y] : g[y][x] \in {0, 1}

\* the buffer d is a full texture whose red channel is 0 or 255
FullTexture(d) ==
    /\ DOMAIN d = 0..(width * maxGenerations * 4 - 1)
    /\ \A y \in 0..(maxGenerations - 1) : \A x \in 0..(width - 1) :
          d[(y * width + x) * 4] \in {0, 255}

EvolutionDone == pc = "mounted" /\ tpc = "done"

\* C19: for every width > 0 and generationCount > 0 both evolution loops
\* terminate, and what they deliver has exactly generationCount rows of exactly
\* width cells, each 0 or 1 (0 or 255 in the texture's red channel).
C19_TerminatesWithFullGrid ==
    /\ <>EvolutionDone
    /\ [](pc = "mount" => Size(allGenerations) = i + 1 /\ i <= maxGenerations - 1)
    /\ [](pc = "mounted" => FullGrid(generations))
    /\ [](tpc = "done" => FullTexture(data))

\* both loops have ended on the largest grid
C19_Witness ==
    /\ EvolutionDone
    /\ width = MaxWidth
    /\ maxGenerations = MaxGens
    /\ Size(generations) = MaxGens
    /\ Size(data) = MaxWidth * MaxGens * 4

\* ------------------------------------------------- the growth animation
\* The useFrame callbacks of all mounted nodes run once per frame, frames
\* coming every frameMs milliseconds; a timer due at the time of a frame fires
\* first. Every callback is followed by its re-render before the next one runs,
\* so the show and scale a callback tests are the current ones. The rotation a
\* callback writes into its group is a function of the clock and is not kept.

\* the growth moves the node up instead of scaling it
GrowScaleRising(n) ==
    IF n.show /\ n.scale < 1000
    THEN [n EXCEPT !.position = <<@[1], @[2] + 50, @[3]>>, !.scale = Min(@ + 50, 1000)]
    ELSE n

\* if (show && scale < 1) setScale(prev => Math.min(prev + 0.05, 1))
\* the growth without the cap at the full size
GrowScaleOver(n) == IF n.show /\ n.scale < 1000 THEN [n EXCEPT !.scale = @ + 50] ELSE n

\* the growth in steps of 0.1
GrowScaleFast(n) == IF n.show /\ n.scale < 1000 THEN [n EXCEPT !.scale = Min(@ + 100, 1000)] ELSE n

GrowScale(n) == IF n.show /\ n.scale < 1000 THEN [n EXCEPT !.scale = Min(@ + 50, 1000)] ELSE n

\* one frame: the callback of every mounted node
FrameRound ==
    /\ frameMs > 0
    /\ timers # <<>> => nextFrame < Head(timers).due
    /\ timers = <<>> => {p \in DOMAIN nodes : nodes[p].scale < 1000} # {}
    /\ nodes' = [p \in DOMAIN nodes |-> GrowScale(nodes[p])]
    /\ nextFrame' = nextFrame + frameMs
    /\ UNCHANGED <<kind, rootDepth, timers, now, frameMs>>
    /\ UNCHANGED <<caVars, callVars, galleryVars>>

CubeFrame ==
    /\ kind = "Cube"
    /\ FrameRound

TetrahedronFrame ==
    /\ kind = "Tetrahedron"
    /\ FrameRound

TorusFrame ==
    /\ kind = "Torus"
    /\ FrameRound

MaxGrowDepth == 1

\* frame intervals: a 60 Hz display, a slow one, and one slower than the timers
FramePeriods == {16, 120, 450}

InitGrow ==
    /\ rootDepth \in 0..MaxGrowDepth
    /\ \/ MountRoot("Cube", CubeRoot(rootDepth))
       \/ MountRoot("Tetrahedron", TetrahedronRoot(rootDepth))
       \/ MountRoot("Torus", TorusRoot(rootDepth))
    /\ frameMs \in FramePeriods
    /\ nextFrame = frameMs
    /\ IdleCA

NextGrow ==
    \/ CubeShow
    \/ CubeShowChildren
    \/ CubeFrame
    \/ TetrahedronShow
    \/ TetrahedronShowChildren
    \/ TetrahedronFrame
    \/ TorusShow
    \/ TorusShowChildren
    \/ TorusFrame

SpecGrow == InitGrow /\ [][NextGrow]_vars

\* what a node is, as opposed to how far its presentation has got
Fixed(n) == [n EXCEPT !.show = FALSE, !.showChildren = FALSE, !.scale = 0]

\* the children the render of node n returns once it is revealed
ChildrenOf(n) ==
    CASE kind = "Cube" -> CubeChildren(Revealed(n))
      [] kind = "Tetrahedron" -> TetrahedronChildren(Revealed(n))
      [] kind = "Torus" -> TorusChildren(Revealed(n))

ColorIndexOf(n) ==
    CASE kind = "Cube" -> CubeColorIndex(n.depth)
      [] kind = "Tetrahedron" -> DisplayColor(n)
      [] kind = "Torus" -> TorusColorIndex(n.depth)

\* C20: timers and frame callbacks change nothing of a node but show,
\* showChildren and scale: every step keeps every node, its position, size (radii),
\* remaining depth and colour index, and every render of a parent hands each
\* child the props it was created with.
C20_OnlyPresentationChanges ==
    /\ [][\A p \in DOMAIN nodes :
             /\ p \in DOMAIN nodes'
             /\ Fixed(nodes'[p]) = Fixed(nodes[p])
             /\ nodes'[p].position = nodes[p].position
             /\ nodes'[p].depth = nodes[p].depth
             /\ ColorIndexOf(nodes'[p]) = ColorIndexOf(nodes[p])]_vars
    /\ [](\A p \in DOMAIN nodes :
             \A c \in ChildIndices(p) :
                 Fixed(nodes[Append(p, c)]) = Fixed(ChildrenOf(nodes[p])[c + 1]))

\* a child is half grown below a fully grown parent, siblings all mounted
C20_Witness ==
    /\ rootDepth = 1
    /\ nodes[<<>>].scale = 1000
    /\ ChildIndices(<<>>) # {}
    /\ \E c \in ChildIndices(<<>>) :
          /\ nodes[<<c>>].show
          /\ nodes[<<c>>].showChildren
          /\ nodes[<<c>>].scale > 1
          /\ nodes[<<c>>].scale < 1000

\* ------------------------------------------------------------ the gallery
\* FractalGallery renders the one visualization activeFractal names; a click on
\* another button unmounts the tree on display, with the cleanup of every
\* node's effect, and mounts the new one. Trees are mounted with a depth of
\* 1..MaxGalleryDepth, and the gallery is followed for MaxClicks switches.

Fractals == {"torus", "tetrahedron", "menger", "julia", "network", "iohk", "wolfram"}

\* the old tree stays whatever is clicked
KindOfStuck(f) == kind

\* the component tree renderFractal returns; the four visualizations that are
\* no Cube, Tetrahedron or Torus tree are not followed further
KindOf(f) ==
    CASE f = "torus" -> "Torus"
      [] f = "tetrahedron" -> "Tetrahedron"
      [] f = "menger" -> "Cube"
      [] OTHER -> "none"

MaxClicks == 2
MaxGalleryDepth == 1

\* the first render of the tree of kind k: its root alone, or nothing
FirstRender(k, depth) ==
    CASE k = "Cube" -> (<<>> :> CubeRoot(depth))
      [] k = "Tetrahedron" -> (<<>> :> TetrahedronRoot(depth))
      [] k = "Torus" -> (<<>> :> TorusRoot(depth))
      [] k = "none" -> <<>>

IsInner(t) == t.inner

\* the cleanups of all unmounted nodes: each clears its outer timer. The
\* function a timer callback returns is dropped by setTimeout, so no child timer
\* is cleared.
EffectCleanups(q) == SelectSeq(q, IsInner)

\* the effect of the freshly mounted root schedules its outer timer
RootEffect(q, tree, m) ==
    IF tree = <<>>
    THEN q
    ELSE SetTimeout(q, [path |-> <<>>, inner |-> FALSE, mount |-> m,
                        due |-> now + tree[<<>>].delay])

\* onClick={() => setActiveFractal(f)} and the commit that follows
Click ==
    /\ \E f \in Fractals :
          /\ activeFractal' = f
          /\ IF f = activeFractal
             THEN UNCHANGED <<treeVars, mounts>>
             ELSE /\ mounts < MaxClicks
                  /\ mounts' = mounts + 1
                  /\ kind' = KindOf(f)
                  /\ rootDepth' \in 1..MaxGalleryDepth
                  /\ nodes' = FirstRender(kind', rootDepth')
                  /\ timers' = RootEffect(EffectCleanups(timers), nodes', mounts')
                  /\ now' = now
    /\ UNCHANGED late
    /\ UNCHANGED <<caVars, frameVars, callVars>>

\* a child timer of an unmounted node fires: setShowChildren(true) is called
\* for it, which React ignores
StaleTimer ==
    /\ timers # <<>>
    /\ Head(timers).mount # mounts
    /\ now' = Head(timers).due
    /\ timers' = Tail(timers)
    /\ late' = late + 1
    /\ UNCHANGED <<kind, rootDepth, nodes, activeFractal, mounts>>
    /\ UNCHANGED <<caVars, frameVars, callVars>>

InitGallery ==
    /\ rootDepth \in 1..MaxGalleryDepth
    /\ MountRoot("Torus", TorusRoot(rootDepth))
    /\ frameMs = 0
    /\ nextFrame = 0
    /\ IdleCA

NextGallery ==
    \/ Click
    \/ StaleTimer
    \/ CubeShow
    \/ CubeShowChildren
    \/ TetrahedronShow
    \/ TetrahedronShowChildren
    \/ TorusShow
    \/ TorusShowChildren

SpecGallery == InitGallery /\ [][NextGallery]_vars

\* the table of FractalGallery's switch, written out
MountedFor(f) ==
    CASE f = "torus" -> "Torus"
      [] f = "tetrahedron" -> "Tetrahedron"
      [] f = "menger" -> "Cube"
      [] f \in {"julia", "network", "iohk", "wolfram"} -> "none"

\* the timers of the tree on display
LiveTimers(q) == {k \in DOMAIN q : q[k].mount = mounts}

\* the tree is in the state of a first mount: the root alone, not shown, at the
\* initial scale, children not revealed, and its outer timer the only one
FreshTree(tree, q, m, t) ==
    /\ DOMAIN tree = {<<>>}
    /\ ~tree[<<>>].show
    /\ ~tree[<<>>].showChildren
    /\ tree[<<>>].scale = 1
    /\ \E k \in DOMAIN q :
          /\ q[k] = [path |-> <<>>, inner |-> FALSE, mount |-> m, due |-> t + tree[<<>>].delay]
          /\ \A j \in DOMAIN q : q[j].mount = m => j = k

\* C21: exactly one visualization is mounted, the one of the button clicked
\* last ('torus' before any click): the tree on display is the one the active
\* button names, every node and every live timer belongs to it, and a switch to
\* a shape, one shown before included, replaces the tree by a freshly mounted
\* root with nothing of an earlier activation in it.
C21_OneFreshVisualization ==
    [][ /\ kind' = MountedFor(activeFractal')
        /\ mounts' = 0 => activeFractal' = "torus"
        /\ (kind' = "none") <=> (nodes' = <<>>)
        /\ \A k \in LiveTimers(timers)' : timers'[k].path \in DOMAIN nodes'
        /\ activeFractal' # activeFractal =>
              /\ mounts' = mounts + 1
              /\ kind' # "none" => FreshTree(nodes', timers', mounts', now')
      ]_vars

\* a shape is active for the second time, after its first tree had grown
C21_Witness ==
    /\ mounts = 2
    /\ activeFractal = "torus"
    /\ DOMAIN nodes = {<<>>}
    /\ ~nodes[<<>>].show
    /\ late > 0

\* C23: when a node is unmounted every timer it scheduled is cancelled: after
\* the cleanup no callback of the node runs, so no timer callback is ever
\* invoked for a node that is no longer mounted.
C23_NoCallbackAfterUnmount ==
    /\ late = 0
    /\ \A k \in DOMAIN timers : timers[k].mount = mounts

\* --------------------------------------------------- where a node is drawn
Prefix(p, n) == SubSeq(p, 1, n)

VectorSum(a, b) == <<a[1] + b[1], a[2] + b[2], a[3] + b[3]>>

\* A node's group carries position={position} and holds the groups of its
\* children, so the translations of all groups from the root down to the node
\* add up.
RECURSIVE GroupTranslation(_, _)
GroupTranslation(p, n) ==
    IF n = 0
    THEN nodes[<<>>].position
    ELSE VectorSum(GroupTranslation(p, n - 1), nodes[Prefix(p, n)].position)

DrawnPosition(p) == GroupTranslation(p, Len(p))

\* C22: a Cube or Tetrahedron node is drawn where its position value says, at
\* every level: the translations of its own group and of all enclosing groups
\* add up to the position computed for it.
C22_DrawnAtComputedPosition ==
    kind \in {"Cube", "Tetrahedron"} =>
        \A p \in DOMAIN nodes : nodes[p].show => DrawnPosition(p) = nodes[p].position

\* C24: the frame counter of Rule30Visualization never exceeds
\* generations.length - 1, animation frames that run against a stale rendered
\* value of frame included, and it stays 0 while generations is empty.
C24_FrameWithinGenerations ==
    /\ Size(generations) = 0 => frame = 0
    /\ Size(generations) > 0 => frame <= Size(generations) - 1

\* ------------------------------------------------ the Rule 30 animation
\* Rule30Visualization stays mounted, animation frames keep coming and React
\* renders every state change after finitely many frames.
LiveFrames ==
    /\ LiveCA
    /\ WF_vars(Render)
    /\ WF_vars(FrameTick)

\* the live cells of the whole grid
LiveCellsOfGrid == {rc \in (DOMAIN generations) \X Cols : generations[rc[1]][rc[2]] = 1}

AllGenerationsShown ==
    /\ pc = "mounted"
    /\ DisplayedGens(frame, generations) = maxGenerations
    /\ mesh.count = Cardinality(LiveCellsOfGrid)

\* C25: the number of displayed generations min(frame + 1, G) never decreases,
\* never exceeds G and eventually equals G, and from then on the instance count
\* stays equal to the number of live cells of the whole grid.
C25_AllGenerationsEventuallyShown ==
    /\ [][DisplayedGens(frame', generations') >= DisplayedGens(frame, generations)]_vars
    /\ [](DisplayedGens(frame, generations) <= Size(generations))
    /\ [][DisplayedGens(frame, generations) = maxGenerations =>
             DisplayedGens(frame', generations') = maxGenerations]_vars
    /\ <>[]AllGenerationsShown

\* the last frame of the largest grid has been rendered
C25_Witness ==
    /\ AllGenerationsShown
    /\ maxGenerations = MaxGens
    /\ width = MaxWidth
    /\ view.frame = maxGenerations - 1
    /\ mesh.count > maxGenerations

\* --------------------------------------------------------- order of reveal
ChildRevealDelay == IF kind = "Cube" THEN 700 ELSE 1000

\* the pending child timers
ChildTimers(q) == {q[k] : k \in {j \in DOMAIN q : q[j].inner}}

\* C26: reveal is ancestor-closed at all times. A node exists, and so can be
\* rendered, only below a parent that is shown and whose child-reveal timer has
\* fired; that timer is scheduled in the step that shows the parent, for 700 ms
\* (Cube) or 1000 ms (Tetrahedron, Torus) later, stays as scheduled until it
\* fires, and children are mounted in no other step than its firing.
C26_RevealIsAncestorClosed ==
    /\ [](\A p \in DOMAIN nodes :
            p # <<>> => /\ Parent(p) \in DOMAIN nodes
                        /\ nodes[Parent(p)].show
                        /\ nodes[Parent(p)].showChildren
                        /\ nodes[p].show => nodes[Parent(p)].show)
    /\ [](\A t \in ChildTimers(timers) :
            nodes[t.path].show /\ ~nodes[t.path].showChildren)
    /\ [][/\ DOMAIN nodes' # DOMAIN nodes =>
               /\ timers # <<>>
               /\ Head(timers).inner
               /\ now' = Head(timers).due
               /\ nodes[Head(timers).path].show
               /\ \A p \in DOMAIN nodes' \ DOMAIN nodes : Parent(p) = Head(timers).path
          /\ \A p \in DOMAIN nodes :
               (nodes'[p].show /\ ~nodes[p].show) =>
                   /\ p = Head(timers).path
                   /\ ~Head(timers).inner
                   /\ [path |-> p, inner |-> TRUE, mount |-> mounts,
                        due |-> now' + ChildRevealDelay] \in ChildTimers(timers')
          /\ ChildTimers(Tail(timers)) \subseteq ChildTimers(timers')
          /\ \A t \in ChildTimers(timers') \ ChildTimers(timers) :
               t.due = now' + ChildRevealDelay
         ]_vars

\* a node of level 2 is shown
C26_Witness ==
    \E p \in DOMAIN nodes : Len(p) = 2 /\ nodes[p].show /\ nodes[Parent(p)].depth > 0

\* ------------------------------------------------- the reveal completes
\* The root stays mounted, every scheduled timer fires and animation frames
\* keep coming.
LiveGrow ==
    /\ SpecGrow
    /\ WF_vars(CubeShow)
    /\ WF_vars(CubeShowChildren)
    /\ WF_vars(CubeFrame)
    /\ WF_vars(TetrahedronShow)
    /\ WF_vars(TetrahedronShowChildren)
    /\ WF_vars(TetrahedronFrame)
    /\ WF_vars(TorusShow)
    /\ WF_vars(TorusShowChildren)
    /\ WF_vars(TorusFrame)

RECURSIVE Power(_, _)
Power(b, e) == IF e = 0 THEN 1 ELSE b * Power(b, e - 1)

Rendered == {p \in DOMAIN nodes : nodes[p].show}

\* every node of the full tree of depth rootDepth is rendered at scale 1
FullTreeGrown ==
    /\ \A lvl \in 0..rootDepth : Cardinality(Level(lvl) \cap Rendered) = Power(ChildCount, lvl)
    /\ \A p \in DOMAIN nodes : Len(p) <= rootDepth /\ nodes[p].show /\ nodes[p].scale = 1000

GrownFrames(sc) == IF sc = 1000 THEN 20 ELSE (sc - 1) \div 50

\* C28: a node's growth scale starts at 0.001, changes only in animation frames
\* while the node is shown, never decreases, never exceeds 1, and reaches
\* exactly 1 after 20 frames of being shown, each frame setting it to
\* min(scale + 0.05, 1); once it equals 1 it never changes again.
C28_ScaleGrowsToOne ==
    /\ [](\A p \in DOMAIN nodes :
            /\ nodes[p].scale \in {1 + 50 * n : n \in 0..19} \cup {1000}
            /\ ~nodes[p].show => nodes[p].scale = 1)
    /\ [][/\ \A p \in DOMAIN nodes' \ DOMAIN nodes : nodes'[p].scale = 1
          /\ \A p \in DOMAIN nodes :
               /\ nodes'[p].scale >= nodes[p].scale
               /\ nodes[p].scale = 1000 => nodes'[p].scale = 1000
               /\ nodes'[p].scale # nodes[p].scale =>
                     /\ nextFrame' = nextFrame + frameMs
                     /\ nodes[p].show
                     /\ GrownFrames(nodes'[p].scale) = GrownFrames(nodes[p].scale) + 1
               /\ (nextFrame' # nextFrame /\ nodes[p].show /\ nodes[p].scale < 1000) =>
                     nodes'[p].scale = (IF nodes[p].scale + 50 > 1000
                                        THEN 1000 ELSE nodes[p].scale + 50)
         ]_vars

\* one node is fully grown while another has one frame to go
C28_Witness ==
    /\ \E p \in DOMAIN nodes : nodes[p].show /\ nodes[p].scale = 1000
    /\ \E p \in DOMAIN nodes : nodes[p].show /\ nodes[p].scale = 951

\* -------------------------------------------------- colours of the palette
Palette ==
    CASE kind = "Cube" -> CubeDepthColors
      [] kind = "Tetrahedron" -> TetrahedronDepthColors
      [] kind = "Torus" -> TorusDepthColors

Entries(palette) == {palette[k] : k \in 1..Len(palette)}

\* C29: every rendered node's colour is an entry of its component's palette:
\* for every remaining depth from 0 to the default root depth the palette index
\* computed is within 0 .. paletteSize - 1, so no node is drawn with an undefined
\* or a fallback colour.
C29_ColourIsPaletteEntry ==
    \A p \in DOMAIN nodes :
        nodes[p].show =>
            /\ DisplayColor(nodes[p]) \in Entries(Palette)
            /\ kind = "Cube" => CubeColorIndex(nodes[p].depth) \in 0..(Len(CubeDepthColors) - 1)
            /\ kind = "Torus" => TorusColorIndex(nodes[p].depth) \in 0..(Len(TorusDepthColors) - 1)

\* ------------------------------------- the grid of Rule30Visualization
\* The mount effect with the numbers it is written with, width 240 and 120
\* generations, followed row by row up to setGenerations.
ActualWidth == 240
ActualGenerations == 120

InitActual ==
    /\ width = ActualWidth
    /\ maxGenerations = ActualGenerations
    /\ pc = "mount"
    /\ allGenerations = Fill(1, InitialState(width))
    /\ i = 0
    /\ generations = <<>>
    /\ cells = "null"
    /\ frame = 0
    /\ view = [frame |-> 0, generations |-> <<>>, cells |-> "null"]
    /\ ticks = 0
    /\ mesh = NoMesh
    /\ tpc = "off"
    /\ data = <<>>
    /\ ty = 0
    /\ tx = 0
    /\ kind = "none"
    /\ rootDepth = 0
    /\ nodes = <<>>
    /\ timers = <<>>
    /\ now = 0
    /\ frameMs = 0
    /\ nextFrame = 0
    /\ dataId = 0
    /\ prior = NoBuffer
    /\ NoClicks

NextActual ==
    \/ EvolveRow
    \/ FinishMount

SpecActual == InitActual /\ [][NextActual]_vars

\* Rule 30 on a row without a boundary: the row is cut maxGenerations cells
\* beyond either end of the grid, further than a cell can act within
\* maxGenerations rows, and column c of the grid is column c + maxGenerations
\* of it.
WideColumns == 0..(width + 2 * maxGenerations - 1)

WideCell(row, c) == IF c \in DOMAIN row THEN row[c] ELSE 0

WideStep(row) == [c \in WideColumns |-> Rule30(WideCell(row, c - 1), row[c], WideCell(row, c + 1))]

WideSeed == [c \in WideColumns |-> IF c = maxGenerations + (width \div 2) THEN 1 ELSE 0]

RECURSIVE WideRow(_)
WideRow(r) ==
    IF r = 0
    THEN WideSeed
    ELSE CHOOSE next \in {WideStep(row) : row \in {WideRow(r - 1)}} : TRUE

\* the columns of the grid, cut out of the wide row
Window(row) == [c \in 0..(width - 1) |-> row[c + maxGenerations]]

InCone(r, c) == Abs(c - (width \div 2)) <= r

\* C30: from the single-centre seed every live cell of row r lies in a column c
\* with |c - floor(width / 2)| <= r, and so the 240 x 120 grid of
\* Rule30Visualization equals the window of Rule 30 on an unbounded row: the
\* dead boundary changes none of its cells.
C30_GridIsWindowOfUnboundedRule30 ==
    /\ \A c \in 0..(width - 1) :
          allGenerations[i][c] = 1 => InCone(i, c)
    /\ \A wide \in {WideRow(i)} :
          /\ allGenerations[i] = Window(wide)
          /\ \A c \in WideColumns :
                wide[c] = 1 => (c - maxGenerations \in 0..(width - 1))
    /\ pc = "mounted" =>
          /\ generations = allGenerations
          /\ Size(generations) = ActualGenerations

\* the last row of the mounted grid, where the cone reaches column 1 and the
\* last column
C30_Witness ==
    /\ pc = "mounted"
    /\ Size(generations) = ActualGenerations
    /\ generations[ActualGenerations - 1][1] = 1
    /\ generations[ActualGenerations - 1][ActualWidth - 1] = 1
    /\ generations[ActualGenerations - 1][0] = 0

====
